---------------------------- MODULE Spec2Model ----------------------------
(***************************************************************************)
(* PhaseImplementationOperation.execute: a streamed model output is fed,   *)
(* chunk by chunk, to the SCOF streaming parser; the parser calls back     *)
(* into execute on file open / file content / file close; on close the     *)
(* file is reconciled and either handed to the real-time code fixer (an    *)
(* asynchronous task) or wrapped in a resolved promise.                    *)
(*                                                                         *)
(* Text is a sequence of atoms.  "NL" is the newline character; "B49" is a *)
(* run of 49 lines of ordinary text (it holds 48 newlines); every other    *)
(* atom is a piece of text without a newline.  A line of the stream is a   *)
(* sequence of atoms followed by "NL".                                     *)
(***************************************************************************)
EXTENDS Integers, Sequences, FiniteSets, TLC

\* ------------------------------------------------------------- bounds
\* Lines the model output holds at most.
MaxLines == 4
\* Atoms one chunk holds at most.
MaxChunk == 3
\* Lines a stream of diffs without hunks holds at most.
MaxFixLines == 6
\* Lines a stream of whole-file rewrites holds at most.
MaxMarkerLines == 5
\* Lines the stream of a phase that is run twice holds at most.
MaxRunLines == 3
\* Lines a stream of diffs of one file holds at most.
MaxDiffLines == 6
\* Lines a stream of setup commands holds at most.
MaxCommandLines == 6

\* ------------------------------------------------- program constants
\* generatedFile.fileContents.split('\n').length > 50
MinLinesForRealtimeFix == 50

NL == "NL"
Formats == {"full_content", "unified_diff"}
NoFile == [filePath |-> "", format |-> "", raw |-> <<>>]
NoError == "none"

\* ------------------------------------------------------ text helpers
\* Newlines a piece of text holds.
NewlinesIn(atom) == IF atom = NL THEN 1 ELSE IF atom = "B49" THEN 48 ELSE 0

RECURSIVE CountNewlines(_)
CountNewlines(s) ==
    IF s = <<>> THEN 0 ELSE NewlinesIn(Head(s)) + CountNewlines(Tail(s))

\* s.split('\n').length
SplitLength(s) == CountNewlines(s) + 1

\* Index of the first NL of s, 0 when it holds none.
RECURSIVE FirstNL(_, _)
FirstNL(s, i) ==
    IF i > Len(s) THEN 0 ELSE IF s[i] = NL THEN i ELSE FirstNL(s, i + 1)

\* s.split('\n'): the lines of s, the text after the last NL included.
RECURSIVE SplitNL(_)
SplitNL(s) ==
    LET k == FirstNL(s, 1) IN
    IF k = 0 THEN <<s>>
    ELSE <<SubSeq(s, 1, k - 1)>> \o SplitNL(SubSeq(s, k + 1, Len(s)))

\* lines.join('\n')
RECURSIVE JoinNL(_)
JoinNL(lines) ==
    IF lines = <<>> THEN <<>>
    ELSE IF Len(lines) = 1 THEN lines[1]
    ELSE lines[1] \o <<NL>> \o JoinNL(Tail(lines))

\* One trailing newline, when there is one, removed.
TrimTrailingNewline(s) ==
    IF s # <<>> /\ s[Len(s)] = NL THEN SubSeq(s, 1, Len(s) - 1) ELSE s


\* ------------------------------------------- the content reconciler
\* A hunk: the contiguous block of '-' lines and the '+' lines replacing it.
EmptyHunk == [minus |-> <<>>, plus |-> <<>>]

IsHunkHeader(line) == line # <<>> /\ line[1] = "@@"
IsMinusLine(line) == line # <<>> /\ line[1] = "-"
IsPlusLine(line) == line # <<>> /\ line[1] = "+"

\* The hunks of a diff body: '@@' starts a hunk, and so does a '-' line that
\* follows '+' lines; unprefixed lines are context and are ignored.
RECURSIVE ParseHunks(_, _)
ParseHunks(lines, cur) ==
    LET flush == IF cur = EmptyHunk THEN <<>> ELSE <<cur>> IN
    IF lines = <<>> THEN flush
    ELSE LET l == Head(lines) IN
         IF IsHunkHeader(l) THEN flush \o ParseHunks(Tail(lines), EmptyHunk)
         ELSE IF IsMinusLine(l) THEN
             IF cur.plus # <<>>
             THEN flush \o ParseHunks(Tail(lines), [minus |-> <<Tail(l)>>, plus |-> <<>>])
             ELSE ParseHunks(Tail(lines), [cur EXCEPT !.minus = Append(@, Tail(l))])
         ELSE IF IsPlusLine(l) THEN
             ParseHunks(Tail(lines), [cur EXCEPT !.plus = Append(@, Tail(l))])
         ELSE ParseHunks(Tail(lines), cur)

\* Where block occurs last in lines, scanning bottom to top; 0 when nowhere.
FindBlockLast(lines, block, i) ==
    LET at == {j \in i..(Len(lines) - Len(block) + 1) :
                  SubSeq(lines, j, j + Len(block) - 1) = block} IN
    IF at = {} THEN 0 ELSE CHOOSE j \in at : \A m \in at : m <= j

\* Where block occurs in lines, scanning top to bottom from i; 0 when nowhere.
RECURSIVE FindBlock(_, _, _)
FindBlock(lines, block, i) ==
    IF i + Len(block) - 1 > Len(lines) THEN 0
    ELSE IF SubSeq(lines, i, i + Len(block) - 1) = block THEN i
    ELSE FindBlock(lines, block, i + 1)

\* The first occurrence of the hunk's '-' block replaced by its '+' lines.
ApplyHunk(lines, h) ==
    LET i == FindBlock(lines, h.minus, 1) IN
    IF i = 0 THEN [ok |-> FALSE, lines |-> lines]
    ELSE [ok |-> TRUE,
          lines |-> SubSeq(lines, 1, i - 1) \o h.plus
                    \o SubSeq(lines, i + Len(h.minus), Len(lines))]

RECURSIVE ApplyHunks(_, _)
ApplyHunks(lines, hunks) ==
    IF hunks = <<>> THEN [ok |-> TRUE, lines |-> lines]
    ELSE LET r == ApplyHunk(lines, Head(hunks)) IN
         IF r.ok THEN ApplyHunks(r.lines, Tail(hunks)) ELSE r

applyDiff(originalContents, diff) ==
    LET r == ApplyHunks(SplitNL(originalContents),
                        ParseHunks(SplitNL(diff), EmptyHunk)) IN
    [ok |-> r.ok, contents |-> JoinNL(r.lines)]

\* FileProcessing.processGeneratedFileContents: the contents to persist, or
\* the error it raises.
processGeneratedFileContents(completedFile, originalContents) ==
    IF completedFile.format = "unified_diff" THEN
        LET r == applyDiff(originalContents, completedFile.fileContents)
            c == TrimTrailingNewline(r.contents) IN
        IF ~r.ok \/ (c = <<>> /\ originalContents # <<>>)
        THEN [error |-> "PatchApplicationError", contents |-> <<>>]
        ELSE [error |-> NoError, contents |-> c]
    ELSE [error |-> NoError,
          contents |-> TrimTrailingNewline(completedFile.fileContents)]

\* ------------------------------------------------ the run's inputs
AllPaths == {"a", "b", "c", "d"}

\* context.allFiles: the files generated before this phase.  a holds 50
\* lines, b holds 51 and holds the line x twice, c holds 51, d is not there
\* yet.
allFiles ==
    [p \in AllPaths |->
        IF p = "a" THEN <<"B49", NL, "x">>
        ELSE IF p = "b" THEN <<"B49", NL, "x", NL, "x">>
        ELSE IF p = "c" THEN <<"B49", NL, "y", NL, "x">>
        ELSE <<>>]

\* context.allFiles.find(f => f.filePath === filePath)?.fileContents || ''
originalContentsOf(filePath) == allFiles[filePath]

\* FileProcessing.findFilePurpose
findFilePurpose(filePath) == "purpose"

VARIABLES
    profile,            \* which lines the model output may hold
    shouldAutoFix,      \* inputs.shouldAutoFix
    realtimeEnabled,    \* IsRealtimeCodeFixerEnabled(options.inferenceContext)
    emitted,            \* lines the model has produced so far
    wire,               \* atoms produced and not yet delivered as a chunk
    fed,                \* every atom delivered so far, in order
    streamingState,     \* accumulator, completedFiles, parsingState
    fixedFilePromises,  \* the promise list of execute
    tasks,              \* the correction tasks started, by task id
    log,                \* the caller's callbacks, in invocation order
    pc,                 \* streaming | replaying | returned | rejected
    result,             \* what execute returned
    runs,               \* the chunks of the first call of execute and what
                        \* it gave, for a second call that gets them again
    promptCall,         \* the last call of a PROMPT_UTILS function
    deploy,             \* a call of deployToDigitalOceanDroplet
    review,             \* a call of CodeReviewOperation.execute
    setup               \* a ProjectSetupAssistant and its conversation

\* The state of PhaseImplementationOperation.execute.
streamVars == <<profile, shouldAutoFix, realtimeEnabled, emitted, wire, fed,
                streamingState, fixedFilePromises, tasks, log, pc, result, runs>>

\* The state of the other operations.
utilVars == <<promptCall, deploy, review, setup>>

vars == <<streamVars, utilVars>>

\* No PROMPT_UTILS function was called yet.
NoPromptCall == [fn |-> "none"]

\* deployToDigitalOceanDroplet was not called.
NoDeploy == [pc |-> "idle"]

\* CodeReviewOperation.execute was not called.
NoReview == [pc |-> "idle"]

\* No ProjectSetupAssistant was made.
NoSetup == [pc |-> "idle"]

\* None of the other operations has started.
UtilIdle ==
    /\ promptCall = NoPromptCall
    /\ deploy = NoDeploy
    /\ review = NoReview
    /\ setup = NoSetup

NoCompleted == [present |-> FALSE, filePath |-> "", fileContents |-> <<>>, format |-> ""]

\* parsingState is the empty object ({} as SCOFParsingState): none of its
\* fields is defined until the parser fills it in its first call
\* (initialized); the values below are those the parser then gives them.
InitialStreamingState ==
    [accumulator |-> <<>>,
     completedFiles |-> [p \in AllPaths |-> NoCompleted],
     parsingState |-> [initialized |-> FALSE,
                       currentFile |-> NoFile,
                       inCommandBlock |-> FALSE,
                       extractedInstallCommands |-> <<>>,
                       warnings |-> 0]]

\* The streaming state of an earlier call of execute used again.
reusedStreamingState(previous) == previous

\* const streamingState = {...}: every call of execute makes its own.
newStreamingState(previous) == InitialStreamingState

\* No call of execute is over yet.
NoRuns ==
    [chunks |-> <<>>,
     todo |-> <<>>,
     first |-> [done |-> FALSE, log |-> <<>>,
                completedFiles |-> InitialStreamingState.completedFiles,
                fixedFilePromises |-> <<>>,
                commands |-> [defined |-> FALSE, list |-> <<>>]]]

\* streamingState.parsingState.extractedInstallCommands: undefined (defined
\* is FALSE) while parsingState is the empty object, the list after that.
commandsOf(parsingState) ==
    [defined |-> parsingState.initialized,
     list |-> parsingState.extractedInstallCommands]

\* What one call of onChunk reads and writes: the closure of execute.
Env(ss, promises, tks, lg) ==
    [streamingState |-> ss, fixedFilePromises |-> promises, tasks |-> tks,
     log |-> lg, error |-> NoError]

\* ------------------------------------------ the callbacks of execute
Event(cb, filePath, data) == [cb |-> cb, filePath |-> filePath, data |-> data]

\* inputs.fileGeneratingCallback(filePath, purpose)
onFileOpen(filePath, E) ==
    [E EXCEPT !.log = Append(@, Event("fileGenerating", filePath, <<>>))]

\* The chunk handed on without its last character.
onContentChunkTrimmed(filePath, fileChunk, format, E) ==
    [E EXCEPT !.log = Append(@, Event("fileChunkGenerated", filePath,
                                      SubSeq(fileChunk, 1, Len(fileChunk) - 1)))]

\* inputs.fileChunkGeneratedCallback(filePath, fileChunk, format)
onContentChunk(filePath, fileChunk, format, E) ==
    [E EXCEPT !.log = Append(@, Event("fileChunkGenerated", filePath, fileChunk))]

\* inputs.shouldAutoFix && IsRealtimeCodeFixerEnabled(options.inferenceContext)
shouldEnableRealtimeCodeFixer(autoFix, enabled) == autoFix /\ enabled

\* The threshold off by one: a file of exactly 50 lines is corrected too.
isEligibleFromFifty(flag, fileContents) ==
    flag /\ SplitLength(fileContents) >= MinLinesForRealtimeFix

\* shouldEnableRealtimeCodeFixer && fileContents.split('\n').length > 50
isEligible(flag, fileContents) ==
    flag /\ SplitLength(fileContents) > MinLinesForRealtimeFix

\* The promise put at the head of the list (unshift for push).
startFixUnshift(generatedFile, E) ==
    [E EXCEPT !.tasks = Append(@, [file |-> generatedFile, state |-> "pending"]),
              !.fixedFilePromises =
                  <<[file |-> generatedFile, task |-> Len(E.tasks) + 1]>> \o @]

\* The correction awaited inside the close callback: the task has settled
\* when the callback goes on.
startFixAwaited(generatedFile, E) ==
    [E EXCEPT !.tasks = Append(@, [file |-> generatedFile, state |-> "fulfilled"]),
              !.fixedFilePromises =
                  Append(@, [file |-> generatedFile, task |-> Len(E.tasks) + 1])]

\* realtimeCodeFixer.run(generatedFile, ...): the task is started and its
\* promise, not its result, comes back.
startFix(generatedFile, E) ==
    [E EXCEPT !.tasks = Append(@, [file |-> generatedFile, state |-> "pending"]),
              !.fixedFilePromises =
                  Append(@, [file |-> generatedFile, task |-> Len(E.tasks) + 1])]

\* No promise pushed for a file that is not eligible.
pushResolvedSkipped(generatedFile, E) == E

\* fixedFilePromises.push(Promise.resolve(generatedFile))
pushResolved(generatedFile, E) ==
    [E EXCEPT !.fixedFilePromises = Append(@, [file |-> generatedFile, task |-> 0])]

\* Whether some correction task has not settled.
AnyPending(tks) == \E t \in 1..Len(tks) : tks[t].state = "pending"

\* An admission limit of one: no correction is started while another runs.
pushPromiseOneAtATime(flag, generatedFile, E) ==
    IF isEligible(flag, generatedFile.fileContents) /\ ~AnyPending(E.tasks)
    THEN startFix(generatedFile, E)
    ELSE pushResolved(generatedFile, E)

\* One entry per path: a path the list already holds gets no second entry.
pushPromiseOncePerPath(flag, generatedFile, E) ==
    IF \E i \in 1..Len(E.fixedFilePromises) :
           E.fixedFilePromises[i].file.filePath = generatedFile.filePath
    THEN E
    ELSE IF isEligible(flag, generatedFile.fileContents)
    THEN startFix(generatedFile, E)
    ELSE pushResolved(generatedFile, E)

\* The promise pushed for a closed file.
pushPromise(flag, generatedFile, E) ==
    IF isEligible(flag, generatedFile.fileContents)
    THEN startFix(generatedFile, E)
    ELSE pushResolved(generatedFile, E)

\* The close callback never reaching the caller.
notifyFileClosedDropped(generatedFile, E) == E

\* inputs.fileClosedCallback(generatedFile, message)
notifyFileClosed(generatedFile, E) ==
    [E EXCEPT !.log = Append(@, Event("fileClosed", generatedFile.filePath,
                                      generatedFile.fileContents))]

\* The state of an entry of fixedFilePromises for whoever awaits it, with a
\* handler attached that turns a rejection into the generated file.
promiseOutcomeCaught(entry, tks) ==
    IF entry.task = 0 \/ tks[entry.task].state = "rejected" THEN "fulfilled"
    ELSE tks[entry.task].state

\* The state of an entry of fixedFilePromises for whoever awaits it: the
\* entry is the promise of run() itself, or Promise.resolve(generatedFile).
promiseOutcome(entry, tks) ==
    IF entry.task = 0 THEN "fulfilled" ELSE tks[entry.task].state

\* The raw body handed on as it was accumulated, the reconciler not called.
reconcileSkipped(completedFile, originalContents) ==
    [error |-> NoError, contents |-> completedFile.fileContents]

\* The reconciliation error caught and the file handed on with no contents.
reconcileSwallowed(completedFile, originalContents) ==
    LET r == processGeneratedFileContents(completedFile, originalContents) IN
    [error |-> NoError, contents |-> r.contents]

\* completedFile.fileContents = FileProcessing.processGeneratedFileContents(
\*     completedFile, originalContents, logger): an error it raises leaves
\* the callback.
reconcile(completedFile, originalContents) ==
    processGeneratedFileContents(completedFile, originalContents)

\* The onFileClose callback of execute.
onFileClose(filePath, flag, E) ==
    LET completedFile == E.streamingState.completedFiles[filePath] IN
    IF ~completedFile.present THEN E
    ELSE
      LET r == reconcile(completedFile, originalContentsOf(filePath)) IN
      IF r.error # NoError THEN [E EXCEPT !.error = r.error]
      ELSE
        LET E1 == [E EXCEPT !.streamingState.completedFiles[filePath].fileContents
                               = r.contents]
            generatedFile == [filePath |-> filePath,
                              fileContents |-> r.contents,
                              format |-> completedFile.format,
                              filePurpose |-> findFilePurpose(filePath)]
            E2 == pushPromise(flag, generatedFile, E1)
        IN notifyFileClosed(generatedFile, E2)

\* ------------------------------------------ the SCOF stream parser
\* The marker lines of the stream (without their newline).
OpenMarker(filePath, format) == <<"FILE", filePath, format>>
CloseMarker == <<"END">>
CommandOpenMarker == <<"CMDS">>
CommandCloseMarker == <<"ENDCMDS">>

IsOpenMarker(line) ==
    Len(line) = 3 /\ line[1] = "FILE" /\ line[2] \in AllPaths /\ line[3] \in Formats
IsComment(line) == line # <<>> /\ line[1] = "#"

\* A command the list already holds is not added again.
appendCommandDeduplicated(line, E) ==
    LET commands == E.streamingState.parsingState.extractedInstallCommands IN
    IF \E i \in 1..Len(commands) : commands[i] = line THEN E
    ELSE [E EXCEPT !.streamingState.parsingState.extractedInstallCommands
                       = Append(@, line)]

\* A command line of a command block goes to the end of
\* extractedInstallCommands.
appendCommand(line, E) ==
    [E EXCEPT !.streamingState.parsingState.extractedInstallCommands
                  = Append(@, line)]

\* A second open of the pending path adds its lines to what the first one
\* accumulated.
openFileKeepingPrior(filePath, format, E) ==
    LET cur == E.streamingState.parsingState.currentFile
        dup == cur # NoFile /\ cur.filePath = filePath IN
    onFileOpen(filePath,
        [E EXCEPT !.streamingState.parsingState.currentFile =
                      [filePath |-> filePath, format |-> format,
                       raw |-> IF dup THEN cur.raw ELSE <<>>],
                  !.streamingState.parsingState.warnings =
                      IF dup THEN @ + 1 ELSE @])

\* A file-open marker: a new pending file replaces whatever was pending (with
\* a warning when that was a file of the same path), and onFileOpen is called.
openFile(filePath, format, E) ==
    LET cur == E.streamingState.parsingState.currentFile IN
    onFileOpen(filePath,
        [E EXCEPT !.streamingState.parsingState.currentFile =
                      [filePath |-> filePath, format |-> format, raw |-> <<>>],
                  !.streamingState.parsingState.warnings =
                      IF cur # NoFile /\ cur.filePath = filePath THEN @ + 1 ELSE @])

\* onFileClose called before the pending file is in the completed map.
closeFileCallbackFirst(flag, E) ==
    LET cur == E.streamingState.parsingState.currentFile
        closed == onFileClose(cur.filePath, flag, E)
    IN [closed EXCEPT !.streamingState.completedFiles[cur.filePath] =
                          [present |-> TRUE, filePath |-> cur.filePath,
                           fileContents |-> cur.raw, format |-> cur.format],
                      !.streamingState.parsingState.currentFile = NoFile]

\* A file-close marker with a file pending: the pending file goes into the
\* completed map under its path, onFileClose is called, the slot is cleared.
closeFile(flag, E) ==
    LET cur == E.streamingState.parsingState.currentFile
        moved == [E EXCEPT !.streamingState.completedFiles[cur.filePath] =
                               [present |-> TRUE, filePath |-> cur.filePath,
                                fileContents |-> cur.raw, format |-> cur.format]]
        closed == onFileClose(cur.filePath, flag, moved)
    IN [closed EXCEPT !.streamingState.parsingState.currentFile = NoFile]

\* One complete line of the stream.
ProcessLine(line, flag, E) ==
    LET ps == E.streamingState.parsingState
        cur == ps.currentFile IN
    IF ps.inCommandBlock THEN
        IF line = CommandCloseMarker
        THEN [E EXCEPT !.streamingState.parsingState.inCommandBlock = FALSE]
        ELSE IF line = <<>> \/ IsComment(line) THEN E
        ELSE appendCommand(line, E)
    ELSE IF line = CommandOpenMarker
    THEN [E EXCEPT !.streamingState.parsingState.inCommandBlock = TRUE]
    ELSE IF IsOpenMarker(line) THEN openFile(line[2], line[3], E)
    ELSE IF line = CloseMarker /\ cur # NoFile THEN closeFile(flag, E)
    ELSE IF cur # NoFile THEN
        onContentChunk(cur.filePath, line \o <<NL>>, cur.format,
            [E EXCEPT !.streamingState.parsingState.currentFile.raw
                          = @ \o line \o <<NL>>])
    ELSE E

\* Every complete line of buf in turn; the text after the last newline stays
\* in the accumulator for the next chunk.  An error thrown by a callback
\* leaves the parser at once.
RECURSIVE ParseLines(_, _, _)
ParseLines(buf, flag, E) ==
    LET k == FirstNL(buf, 1) IN
    IF E.error # NoError \/ k = 0
    THEN [E EXCEPT !.streamingState.accumulator = buf]
    ELSE ParseLines(SubSeq(buf, k + 1, Len(buf)), flag,
                    ProcessLine(SubSeq(buf, 1, k - 1), flag, E))

\* SCOFFormat.parseStreamingChunks(chunk, state, onFileOpen, onFileChunk, onFileClose)
parseStreamingChunks(chunk, flag, E) ==
    ParseLines(E.streamingState.accumulator \o chunk, flag,
               [E EXCEPT !.streamingState.parsingState.initialized = TRUE])

\* The streaming state made anew for every chunk.
onChunkFreshState(chunk, flag, E) ==
    parseStreamingChunks(chunk, flag,
                         [E EXCEPT !.streamingState = InitialStreamingState])

\* stream.onChunk of execute: every chunk goes to the parser with the one
\* streamingState of the run.
onChunk(chunk, flag, E) == parseStreamingChunks(chunk, flag, E)

\* ------------------------------------------------- the model output
\* The lines a stream of file edits is made of.
FileLines ==
    {OpenMarker("a", "unified_diff"), OpenMarker("d", "full_content"), CloseMarker,
     <<"x">>, <<"-", "x">>, <<"+", "y">>}

\* The lines of a stream of diffs without hunks: every close reconciles to the
\* file's previous contents.
FixLines ==
    {OpenMarker("b", "unified_diff"), OpenMarker("c", "unified_diff"), CloseMarker}

\* A marker cut short: it lacks its format.
TruncatedMarker == <<"FILE", "a">>

\* The lines of a stream of whole-file rewrites with repeated opens, repeated
\* closes and a truncated marker; the diff of b has no hunks.
MarkerLines ==
    {OpenMarker("a", "full_content"), OpenMarker("b", "unified_diff"), CloseMarker,
     <<"x">>, TruncatedMarker}

\* The lines of a stream of setup commands: the two sentinels of a command
\* block, two commands and a comment line.
CommandLines ==
    {CommandOpenMarker, CommandCloseMarker, <<"pip">>, <<"npm">>, <<"#", "c">>}

\* The lines of a stream of diffs of the file b, which holds the line x twice.
DiffLines ==
    {OpenMarker("b", "unified_diff"), <<"@@">>, <<"-", "x">>, <<"+", "y">>, CloseMarker}

\* The lines of a stream that opens and closes the file d, in any order.
RunLines == {OpenMarker("d", "full_content"), CloseMarker}

LinesOf(p) ==
    IF p = "fixes" THEN FixLines
    ELSE IF p = "runs" THEN RunLines
    ELSE IF p = "diffs" THEN DiffLines
    ELSE IF p = "markers" THEN MarkerLines
    ELSE IF p = "commands" THEN CommandLines
    ELSE FileLines
\* The lines the model may produce after n lines: a stream of setup commands
\* may start inside the file d, a stream of diffs starts by opening b.
NextLines(p, n) ==
    IF p = "commands" /\ n = 0
    THEN CommandLines \cup {OpenMarker("d", "full_content")}
    ELSE IF p = "diffs" /\ n = 0
    THEN {OpenMarker("b", "unified_diff")}
    ELSE LinesOf(p)
MaxLinesOf(p) ==
    IF p = "fixes" THEN MaxFixLines
    ELSE IF p = "runs" THEN MaxRunLines
    ELSE IF p = "diffs" THEN MaxDiffLines
    ELSE IF p = "markers" THEN MaxMarkerLines
    ELSE IF p = "commands" THEN MaxCommandLines
    ELSE MaxLines

\* -------------------------------------------------------- the run
InitRun ==
    /\ emitted = 0
    /\ wire = <<>>
    /\ fed = <<>>
    /\ streamingState = InitialStreamingState
    /\ fixedFilePromises = <<>>
    /\ tasks = <<>>
    /\ log = <<>>
    /\ pc = "streaming"
    /\ result = [returned |-> FALSE]
    /\ runs = NoRuns

Init ==
    /\ profile = "files"
    /\ shouldAutoFix \in BOOLEAN
    /\ realtimeEnabled \in BOOLEAN
    /\ InitRun
    /\ UtilIdle

\* A phase of up to MaxFixLines lines of diffs without hunks, the real-time
\* fixer enabled.
InitFixes ==
    /\ profile = "fixes"
    /\ shouldAutoFix = TRUE
    /\ realtimeEnabled = TRUE
    /\ InitRun
    /\ UtilIdle

\* A phase of up to MaxMarkerLines lines of whole-file rewrites, the real-time
\* fixer enabled.
InitMarkers ==
    /\ profile = "markers"
    /\ shouldAutoFix = TRUE
    /\ realtimeEnabled = TRUE
    /\ InitRun
    /\ UtilIdle

\* A phase of up to MaxCommandLines lines of setup commands; no file is
\* closed, so no correction is ever started.
InitCommands ==
    /\ profile = "commands"
    /\ shouldAutoFix = FALSE
    /\ realtimeEnabled = FALSE
    /\ InitRun
    /\ UtilIdle

\* A phase of up to MaxDiffLines lines of diffs of the file b, the real-time
\* fixer disabled.
InitDiffs ==
    /\ profile = "diffs"
    /\ shouldAutoFix = FALSE
    /\ realtimeEnabled = FALSE
    /\ InitRun
    /\ UtilIdle

\* A phase of up to MaxRunLines lines that is run twice, the real-time fixer
\* disabled.
InitRuns ==
    /\ profile = "runs"
    /\ shouldAutoFix = FALSE
    /\ realtimeEnabled = FALSE
    /\ InitRun
    /\ UtilIdle

\* The model produces one more line of output.
Emit ==
    /\ pc = "streaming"
    /\ emitted < MaxLinesOf(profile)
    /\ Len(wire) < MaxChunk
    /\ \E line \in NextLines(profile, emitted) : wire' = wire \o line \o <<NL>>
    /\ emitted' = emitted + 1
    /\ UNCHANGED <<profile, shouldAutoFix, realtimeEnabled, fed, streamingState,
                   fixedFilePromises, tasks, log, pc, result, runs>>
    /\ UNCHANGED utilVars

\* stream.onChunk(chunk): the chunk goes through the parser and the callbacks
\* of execute; an error they throw rejects execute.
Deliver(chunk) ==
    LET E == onChunk(chunk,
                     shouldEnableRealtimeCodeFixer(shouldAutoFix, realtimeEnabled),
                     Env(streamingState, fixedFilePromises, tasks, log))
    IN /\ fed' = fed \o chunk
       /\ streamingState' = E.streamingState
       /\ fixedFilePromises' = E.fixedFilePromises
       /\ tasks' = E.tasks
       /\ log' = E.log
       /\ pc' = IF E.error # NoError THEN "rejected" ELSE pc
       /\ result' = IF E.error # NoError
                    THEN [returned |-> FALSE, error |-> E.error]
                    ELSE result

\* executeInference delivers the next chunk: stream.onChunk(chunk).  In the
\* first call of execute the chunk is up to MaxChunk atoms of the model
\* output (kept, when the phase is to be run a second time); in the second
\* call it is the next chunk the first call got.
OnChunk ==
    /\ pc \in {"streaming", "replaying"}
    /\ \E n \in 1..MaxChunk :
        /\ IF pc = "replaying" THEN n = 1 /\ runs.todo # <<>> ELSE n <= Len(wire)
        /\ LET chunk == IF pc = "replaying" THEN Head(runs.todo)
                        ELSE SubSeq(wire, 1, n)
           IN /\ wire' = IF pc = "replaying" THEN wire
                         ELSE SubSeq(wire, n + 1, Len(wire))
              /\ Deliver(chunk)
              /\ runs' = IF pc = "replaying" THEN [runs EXCEPT !.todo = Tail(@)]
                         ELSE IF profile = "runs"
                         THEN [runs EXCEPT !.chunks = Append(@, chunk)]
                         ELSE runs
    /\ UNCHANGED <<profile, shouldAutoFix, realtimeEnabled, emitted>>
    /\ UNCHANGED utilVars

\* A deployment asked for only when a correction was started.
deploymentNeededWhenCorrecting(promises) ==
    \E i \in 1..Len(promises) : promises[i].task # 0

\* deploymentNeeded: fixedFilePromises.length > 0
deploymentNeeded(promises) == Len(promises) > 0

\* The stream ends and the file still open is handed on as if it had been
\* closed.
ReturnFlushingPending ==
    LET cur == streamingState.parsingState.currentFile
        flushed == IF cur = NoFile THEN fixedFilePromises
                   ELSE Append(fixedFilePromises,
                               [file |-> [filePath |-> cur.filePath,
                                          fileContents |-> cur.raw,
                                          format |-> cur.format,
                                          filePurpose |-> findFilePurpose(cur.filePath)],
                                task |-> 0])
    IN
    /\ \/ pc = "streaming" /\ wire = <<>>
       \/ pc = "replaying" /\ runs.todo = <<>>
    /\ pc' = "returned"
    /\ fixedFilePromises' = flushed
    /\ result' = [returned |-> TRUE,
                  fixedFilePromises |-> flushed,
                  deploymentNeeded |-> deploymentNeeded(flushed),
                  commands |-> commandsOf(streamingState.parsingState)]
    /\ UNCHANGED <<profile, shouldAutoFix, realtimeEnabled, emitted, wire, fed,
                   streamingState, tasks, log, runs>>
    /\ UNCHANGED utilVars

\* The stream ends: await executeInference(...) resolves and execute returns.
Return ==
    /\ \/ pc = "streaming" /\ wire = <<>>
       \/ pc = "replaying" /\ runs.todo = <<>>
    /\ pc' = "returned"
    /\ result' = [returned |-> TRUE,
                  fixedFilePromises |-> fixedFilePromises,
                  deploymentNeeded |-> deploymentNeeded(fixedFilePromises),
                  commands |-> commandsOf(streamingState.parsingState)]
    /\ UNCHANGED <<profile, shouldAutoFix, realtimeEnabled, emitted, wire, fed,
                   streamingState, fixedFilePromises, tasks, log, runs>>
    /\ UNCHANGED utilVars

\* A correction task settles: RealtimeCodeFixer.run resolves or rejects.
Settle ==
    /\ \E t \in 1..Len(tasks) :
        /\ tasks[t].state = "pending"
        /\ \E outcome \in {"fulfilled", "rejected"} :
               tasks' = [tasks EXCEPT ![t].state = outcome]
    /\ UNCHANGED <<profile, shouldAutoFix, realtimeEnabled, emitted, wire, fed,
                   streamingState, fixedFilePromises, log, pc, result, runs>>
    /\ UNCHANGED utilVars

\* execute is called a second time, after its first call returned, and is to
\* get the chunks of the first call again: it makes its streaming state and
\* its promise list anew.
ExecuteAgain ==
    /\ profile = "runs"
    /\ pc = "returned"
    /\ ~runs.first.done
    /\ runs' = [chunks |-> runs.chunks,
                todo |-> runs.chunks,
                first |-> [done |-> TRUE, log |-> log,
                           completedFiles |-> streamingState.completedFiles,
                           fixedFilePromises |-> fixedFilePromises,
                           commands |-> result.commands]]
    /\ streamingState' = newStreamingState(streamingState)
    /\ fixedFilePromises' = <<>>
    /\ tasks' = <<>>
    /\ log' = <<>>
    /\ fed' = <<>>
    /\ pc' = "replaying"
    /\ result' = [returned |-> FALSE]
    /\ UNCHANGED <<profile, shouldAutoFix, realtimeEnabled, emitted, wire>>
    /\ UNCHANGED utilVars

Next == Emit \/ OnChunk \/ Return \/ Settle

Spec == Init /\ [][Next]_vars

SpecFixes == InitFixes /\ [][Next]_vars

SpecMarkers == InitMarkers /\ [][Next]_vars

\* The steps of a run that starts no correction.
NextStream == Emit \/ OnChunk \/ Return

SpecCommands == InitCommands /\ [][NextStream]_vars

SpecDiffs == InitDiffs /\ [][NextStream]_vars

\* The steps of a phase that is run twice on the same chunks.
NextRuns == Emit \/ OnChunk \/ Return \/ ExecuteAgain

SpecRuns == InitRuns /\ [][NextRuns]_vars

\* ------------------------------------- what the input stream says
\* The lines of s that are complete (ended by a newline).
CompleteLines(s) == LET l == SplitNL(s) IN SubSeq(l, 1, Len(l) - 1)

\* The markers and body lines of a sequence of lines, in the order they
\* appear: the file events the stream describes, read off the whole input.
RECURSIVE StreamEvents(_, _, _)
StreamEvents(lines, cur, inCmd) ==
    IF lines = <<>> THEN <<>>
    ELSE LET l == Head(lines)
             rest == Tail(lines) IN
         IF inCmd THEN StreamEvents(rest, cur, l # CommandCloseMarker)
         ELSE IF l = CommandOpenMarker THEN StreamEvents(rest, cur, TRUE)
         ELSE IF IsOpenMarker(l) THEN
             <<[cb |-> "fileGenerating", filePath |-> l[2], format |-> l[3],
                data |-> <<>>]>>
             \o StreamEvents(rest, [filePath |-> l[2], format |-> l[3], raw |-> <<>>],
                             FALSE)
         ELSE IF l = CloseMarker /\ cur # NoFile THEN
             <<[cb |-> "fileClosed", filePath |-> cur.filePath, format |-> cur.format,
                data |-> cur.raw]>>
             \o StreamEvents(rest, NoFile, FALSE)
         ELSE IF cur # NoFile THEN
             <<[cb |-> "fileChunkGenerated", filePath |-> cur.filePath,
                format |-> cur.format, data |-> l \o <<NL>>]>>
             \o StreamEvents(rest, [cur EXCEPT !.raw = @ \o l \o <<NL>>], FALSE)
         ELSE StreamEvents(rest, cur, FALSE)

FedEvents == StreamEvents(CompleteLines(fed), NoFile, FALSE)

Select(seq, cb) == SelectSeq(seq, LAMBDA e : e.cb = cb)

\* The files the stream delivered so far closes, in the order it closes them.
FedCloses == Select(FedEvents, "fileClosed")

\* Whether a closed file of the stream is a diff whose removed block is not
\* in the previous contents of its path.
BlockNotFound(close) ==
    /\ close.format = "unified_diff"
    /\ ~applyDiff(originalContentsOf(close.filePath), close.data).ok

ClosedCallbacks == Select(log, "fileClosed")

CallbackKinds(seq) == [i \in 1..Len(seq) |-> <<seq[i].cb, seq[i].filePath>>]

IsPrefix(s, t) == Len(s) <= Len(t) /\ s = SubSeq(t, 1, Len(s))

FlagEnabled == shouldAutoFix /\ realtimeEnabled

Entries == 1..Len(fixedFilePromises)

\* The reconciled contents of the i-th file the stream closes.
ReconciledOf(close) ==
    processGeneratedFileContents(
        [fileContents |-> close.data, format |-> close.format],
        originalContentsOf(close.filePath)).contents

\* The run that gets everything delivered so far as one chunk.
OneChunkRun ==
    onChunk(fed, shouldEnableRealtimeCodeFixer(shouldAutoFix, realtimeEnabled),
            Env(InitialStreamingState, <<>>, <<>>, <<>>))

\* ------------------------------------------------------------ claims

\* C1: a closed file goes to the real-time fixer if and only if shouldAutoFix
\* and IsRealtimeCodeFixerEnabled are both true and its reconciled contents
\* hold more than 50 lines: never at 49 lines, always at 51 with the flag on,
\* never with the flag off.
C1_DispatchIffFlagAndOver50 ==
    LET closes == FedCloses IN
    \A i \in Entries :
        LET e == fixedFilePromises[i]
            n == SplitLength(e.file.fileContents) IN
        /\ i <= Len(closes)
        /\ e.file.fileContents = ReconciledOf(closes[i])
        /\ (e.task # 0) <=> (shouldAutoFix /\ realtimeEnabled /\ n > 50)
        /\ n = 49 => e.task = 0
        /\ (n = 51 /\ shouldAutoFix /\ realtimeEnabled) => e.task # 0
        /\ e.task # 0 => (e.task \in 1..Len(tasks) /\ tasks[e.task].file = e.file)

\* A file of 51 lines was closed with the flag on and went to the fixer.
C1_Witness ==
    \E i \in Entries :
        /\ SplitLength(fixedFilePromises[i].file.fileContents) = 51
        /\ fixedFilePromises[i].task # 0

\* C2: the promise list is in file-close order whatever order the correction
\* tasks settle in: its i-th entry, and the task behind it, belong to the i-th
\* file the stream closed, and the list execute returns is that list.
C2_PromisesInCloseOrder ==
    LET closes == FedCloses IN
    pc # "rejected" =>
        /\ Len(fixedFilePromises) = Len(closes)
        /\ \A i \in Entries :
              LET e == fixedFilePromises[i] IN
              /\ e.file.filePath = closes[i].filePath
              /\ e.file.fileContents = ReconciledOf(closes[i])
              /\ e.task # 0 => tasks[e.task].file = e.file
        /\ pc = "returned" => result.fixedFilePromises = fixedFilePromises

\* Three files were closed and sent to the fixer; the second and the third
\* correction have settled and the first is still running; the list is
\* returned in close order.
C2_Witness ==
    /\ pc = "returned"
    /\ Len(result.fixedFilePromises) = 3
    /\ \A i \in 1..3 : result.fixedFilePromises[i].task = i
    /\ tasks[1].state = "pending"
    /\ tasks[2].state = "fulfilled"
    /\ tasks[3].state = "fulfilled"
    /\ tasks[1].file.filePath # tasks[2].file.filePath
    /\ tasks[2].file.filePath # tasks[3].file.filePath

\* C3 (as claimed): every file the stream closes has exactly one entry in the
\* promise list, and the entry of a file that is not eligible is already
\* resolved with the generated, uncorrected file.
C3_EveryCloseOnePromise ==
    LET closes == FedCloses IN
    /\ Len(fixedFilePromises) = Len(closes)
    /\ \A i \in Entries :
          LET e == fixedFilePromises[i] IN
          ~(FlagEnabled /\ SplitLength(e.file.fileContents) > 50) =>
              /\ e.task = 0
              /\ promiseOutcome(e, tasks) = "fulfilled"
              /\ e.file.fileContents = ReconciledOf(closes[i])

\* C4: when a correction task rejects, the entry of the promise list that
\* holds it is rejected for whoever awaits it, every other entry is what it
\* was, the list itself is unchanged and execute does not reject.
C4_RejectionReachesAwaiter ==
    [][\A t \in 1..Len(tasks) :
          (tasks[t].state = "pending" /\ tasks'[t].state = "rejected") =>
              /\ pc' = pc
              /\ result' = result
              /\ fixedFilePromises' = fixedFilePromises
              /\ \E i \in Entries : fixedFilePromises[i].task = t
              /\ \A i \in Entries :
                    LET e == fixedFilePromises[i] IN
                    IF e.task = t
                    THEN promiseOutcome(e, tasks') = "rejected"
                    ELSE promiseOutcome(e, tasks') = promiseOutcome(e, tasks)]_vars

\* execute has returned; one entry of the list is rejected, one is fulfilled
\* and one is still pending.
C4_Witness ==
    /\ pc = "returned"
    /\ \E i, j, k \in Entries :
          /\ fixedFilePromises[i].task # 0
          /\ promiseOutcome(fixedFilePromises[i], tasks) = "rejected"
          /\ promiseOutcome(fixedFilePromises[j], tasks) = "fulfilled"
          /\ promiseOutcome(fixedFilePromises[k], tasks) = "pending"

\* C5: a correction task started by a close callback is still pending when
\* the callback is over, and a pending correction holds up neither the next
\* chunk nor the return of execute.
C5_DispatchDoesNotBlock ==
    [][/\ \A t \in (Len(tasks) + 1)..Len(tasks') : tasks'[t].state = "pending"
       /\ (AnyPending(tasks) /\ pc = "streaming" /\ wire # <<>>) => ENABLED OnChunk
       /\ (AnyPending(tasks) /\ pc = "streaming" /\ wire = <<>>) => ENABLED Return]_vars

\* execute returned while the correction of the last closed file was still
\* pending, after callbacks of a later file had fired.
C5_Witness ==
    /\ pc = "returned"
    /\ fixedFilePromises # <<>>
    /\ LET e == fixedFilePromises[Len(fixedFilePromises)] IN
          e.task # 0 /\ tasks[e.task].state = "pending"
    /\ log[Len(log)].cb = "fileGenerating"

\* C6: there is no admission limit: every eligible file the stream closed has
\* its own correction task, started at its close, however many are pending.
C6_NoAdmissionLimit ==
    LET closes == FedCloses IN
    /\ Len(tasks) =
          Cardinality({i \in 1..Len(closes) :
                          FlagEnabled /\ SplitLength(ReconciledOf(closes[i])) > 50})
    /\ \A t \in 1..Len(tasks) : \E i \in Entries : fixedFilePromises[i].task = t

\* Three eligible files were closed and their three corrections are in flight
\* at the same time.
C6_Witness ==
    /\ Len(tasks) = 3
    /\ \A t \in 1..3 : tasks[t].state = "pending"

\* C7: the caller's callbacks fire in the order of the markers of the input:
\* the callbacks so far are a prefix of the events of the stream (all of them
\* unless execute rejected), and a content or close callback comes right
\* after the open or a content callback of the same file.
C7_CallbacksInStreamOrder ==
    LET events == FedEvents IN
    /\ IsPrefix(CallbackKinds(log), CallbackKinds(events))
    /\ pc # "rejected" => Len(log) = Len(events)
    /\ \A i \in 1..Len(log) :
          /\ log[i].cb = "fileChunkGenerated" => log[i].data = events[i].data
          /\ log[i].cb \in {"fileChunkGenerated", "fileClosed"} =>
                /\ i > 1
                /\ log[i - 1].cb \in {"fileGenerating", "fileChunkGenerated"}
                /\ log[i - 1].filePath = log[i].filePath

\* A file was opened, got content and was closed, and the next file was
\* opened after it.
C7_Witness ==
    /\ Len(log) = 4
    /\ log[1].cb = "fileGenerating"
    /\ log[2].cb = "fileChunkGenerated"
    /\ log[3].cb = "fileClosed"
    /\ log[4].cb = "fileGenerating"
    /\ log[4].filePath # log[1].filePath

\* C8 (as claimed): a file whose reconciliation fails does not make execute
\* reject, and every file the stream closes, that one included, has its
\* promise-list entry and its close callback.
C8_ReconcileFailureNotThrown ==
    /\ pc # "rejected"
    /\ Len(fixedFilePromises) = Len(FedCloses)
    /\ Len(ClosedCallbacks) = Len(FedCloses)

\* C9: when the removed block of a unified_diff file is not in the previous
\* contents of its path, reconciliation raises PatchApplicationError: execute
\* rejects with it, and neither a promise entry nor a close callback hands
\* contents for that file to the caller.
C9_FailedPatchRaises ==
    LET closes == FedCloses IN
    \A i \in 1..Len(closes) :
        BlockNotFound(closes[i]) =>
            /\ pc = "rejected"
            /\ result.error = "PatchApplicationError"
            /\ Len(fixedFilePromises) < i
            /\ Len(ClosedCallbacks) < i

\* A diff whose removed block is not in the previous contents was closed.
C9_Witness ==
    /\ pc = "rejected"
    /\ FedCloses # <<>>
    /\ BlockNotFound(FedCloses[Len(FedCloses)])

\* C10: however the input was split into chunks, the callbacks fired, the
\* completed-files map and the promise list are those of the run that gets the
\* same input as one chunk.
C10_ChunkBoundaryInvariance ==
    LET one == OneChunkRun IN
    /\ log = one.log
    /\ streamingState.completedFiles = one.streamingState.completedFiles
    /\ Len(fixedFilePromises) = Len(one.fixedFilePromises)

\* A chunk ended inside an open marker, after a file was completed.
C10_Witness ==
    /\ streamingState.accumulator = <<"FILE", "d">>
    /\ streamingState.completedFiles["a"].present
    /\ Len(log) >= 2

\* C11: a file that was opened and not closed before the stream ended is never
\* promoted: a path is in the completed-files map only if the input closed a
\* file of that path, and the close callbacks and the promise entries belong,
\* one by one, to the files the input closed.
C11_UnterminatedNeverPromoted ==
    LET closes == FedCloses
        closed == Select(log, "fileClosed") IN
    /\ \A p \in AllPaths :
          streamingState.completedFiles[p].present =>
              \E i \in 1..Len(closes) : closes[i].filePath = p
    /\ Len(closed) <= Len(closes)
    /\ \A i \in 1..Len(closed) : closed[i].filePath = closes[i].filePath
    /\ Len(fixedFilePromises) <= Len(closes)
    /\ \A i \in Entries : fixedFilePromises[i].file.filePath = closes[i].filePath
    /\ pc = "returned" => Len(result.fixedFilePromises) <= Len(closes)

\* execute returned with the file d opened, given content and never closed,
\* after the file a was closed.
C11_Witness ==
    /\ pc = "returned"
    /\ streamingState.parsingState.currentFile.filePath = "d"
    /\ streamingState.parsingState.currentFile.raw # <<>>
    /\ ~streamingState.completedFiles["d"].present
    /\ streamingState.completedFiles["a"].present
    /\ Len(result.fixedFilePromises) = 1

\* File markers, read off a line of the input.
IsFileMarker(line) == IsOpenMarker(line) \/ line = CloseMarker

\* The text of a run of lines, each with its newline.
RECURSIVE ConcatLines(_)
ConcatLines(lines) ==
    IF lines = <<>> THEN <<>>
    ELSE Head(lines) \o <<NL>> \o ConcatLines(Tail(lines))

\* Whether no file marker stands between the lines i and j.
NoMarkerBetween(lines, i, j) ==
    \A m \in (i + 1)..(j - 1) : ~IsFileMarker(lines[m])

\* The open markers of the input that name the path of the file pending when
\* they arrive.
DuplicateOpens(lines) ==
    {j \in 1..Len(lines) :
        /\ IsOpenMarker(lines[j])
        /\ \E i \in 1..(j - 1) :
              /\ IsOpenMarker(lines[i])
              /\ lines[i][2] = lines[j][2]
              /\ NoMarkerBetween(lines, i, j)}

\* C12: a second open marker for the path of the pending file wins: a warning
\* is recorded for each such open, the stream goes on without error, and after
\* the close that follows, the completed content of the path is the reconciled
\* text of the lines after the second open and of nothing before it.
C12_DuplicateOpenNewWins ==
    LET lines == CompleteLines(fed)
        dups == DuplicateOpens(lines) IN
    /\ streamingState.parsingState.warnings = Cardinality(dups)
    /\ pc # "rejected"
    /\ \A j \in dups : \A k \in (j + 1)..Len(lines) :
          (/\ lines[k] = CloseMarker
           /\ NoMarkerBetween(lines, j, k)
           /\ \A m \in (k + 1)..Len(lines) : lines[m] # CloseMarker)
          => LET completedFile == streamingState.completedFiles[lines[j][2]] IN
             /\ completedFile.present
             /\ completedFile.format = lines[j][3]
             /\ completedFile.fileContents =
                    processGeneratedFileContents(
                        [fileContents |-> ConcatLines(SubSeq(lines, j + 1, k - 1)),
                         format |-> lines[j][3]],
                        originalContentsOf(lines[j][2])).contents

\* The file a was opened and given the line x, opened again and given a
\* truncated marker as content, and closed: one warning, and the completed
\* content is the truncated marker alone.
C12_Witness ==
    /\ CompleteLines(fed) =
          <<OpenMarker("a", "full_content"), <<"x">>, OpenMarker("a", "full_content"),
            TruncatedMarker, CloseMarker>>
    /\ streamingState.parsingState.warnings = 1
    /\ streamingState.completedFiles["a"].fileContents = TruncatedMarker
    /\ pc = "returned"

\* The close markers of the input that arrive with a file pending.
EffectiveCloses(lines) ==
    {k \in 1..Len(lines) :
        /\ lines[k] = CloseMarker
        /\ \E j \in 1..(k - 1) :
              /\ IsOpenMarker(lines[j])
              /\ \A m \in (j + 1)..(k - 1) : lines[m] # CloseMarker}

\* The last open marker before line k (0 when there is none).
LastOpenBefore(lines, k) ==
    LET opens == {j \in 1..(k - 1) : IsOpenMarker(lines[j])} IN
    IF opens = {} THEN 0 ELSE CHOOSE j \in opens : \A i \in opens : i <= j

\* The last file marker of the input (0 when there is none).
LastFileMarker(lines) ==
    LET ms == {m \in 1..Len(lines) : IsFileMarker(lines[m])} IN
    IF ms = {} THEN 0 ELSE CHOOSE m \in ms : \A i \in ms : i <= m

\* The completed file the close marker at line k makes, reconciled.
CompletedAt(lines, k) ==
    LET j == LastOpenBefore(lines, k) IN
    [present |-> TRUE, filePath |-> lines[j][2], format |-> lines[j][3],
     fileContents |->
         processGeneratedFileContents(
             [fileContents |-> ConcatLines(SubSeq(lines, j + 1, k - 1)),
              format |-> lines[j][3]],
             originalContentsOf(lines[j][2])).contents]

\* C13: a close marker moves the pending file into the completed map under
\* its path, over any entry of that path, and clears the pending slot; the
\* entry is there when onFileClose fires, so every close of the input gets its
\* close callback and its promise; after several closes of a path the map
\* holds what the latest of them completed.
C13_CloseMovesPendingToCompleted ==
    LET lines == CompleteLines(fed)
        closes == EffectiveCloses(lines)
        last == LastFileMarker(lines) IN
    /\ Len(ClosedCallbacks) = Cardinality(closes)
    /\ Len(fixedFilePromises) = Cardinality(closes)
    /\ \A p \in AllPaths :
          LET ks == {k \in closes : lines[LastOpenBefore(lines, k)][2] = p} IN
          IF ks = {} THEN ~streamingState.completedFiles[p].present
          ELSE streamingState.completedFiles[p] =
                   CompletedAt(lines, CHOOSE k \in ks : \A i \in ks : i <= k)
    /\ (last # 0 /\ lines[last] = CloseMarker) =>
          streamingState.parsingState.currentFile = NoFile
    /\ (last # 0 /\ IsOpenMarker(lines[last])) =>
          streamingState.parsingState.currentFile.filePath = lines[last][2]

\* The file a was opened, given the line x and closed, then opened and closed
\* again with no content: two close callbacks, the map holds the empty content
\* of the second close, and nothing is pending.
C13_Witness ==
    /\ CompleteLines(fed) =
          <<OpenMarker("a", "full_content"), <<"x">>, CloseMarker,
            OpenMarker("a", "full_content"), CloseMarker>>
    /\ Len(ClosedCallbacks) = 2
    /\ ClosedCallbacks[1].data = <<"x">>
    /\ streamingState.completedFiles["a"].present
    /\ streamingState.completedFiles["a"].fileContents = <<>>
    /\ streamingState.parsingState.currentFile = NoFile

\* Whether line m of the input stands inside a command block: a command-open
\* sentinel stands before it with no command-close sentinel in between.
InCommandBlock(lines, m) ==
    \E o \in 1..(m - 1) :
        /\ lines[o] = CommandOpenMarker
        /\ \A i \in (o + 1)..(m - 1) : lines[i] # CommandCloseMarker

\* Whether line m of the input is a command: a line of a command block that
\* is not empty, not a comment and not the sentinel closing the block.
IsCommandLine(lines, m) ==
    /\ InCommandBlock(lines, m)
    /\ lines[m] # CommandCloseMarker
    /\ lines[m] # <<>>
    /\ ~IsComment(lines[m])

\* The commands among the first m lines of the input, in the order of the
\* input.
RECURSIVE CommandsUpTo(_, _)
CommandsUpTo(lines, m) ==
    IF m = 0 THEN <<>>
    ELSE CommandsUpTo(lines, m - 1)
         \o (IF IsCommandLine(lines, m) THEN <<lines[m]>> ELSE <<>>)

\* C14: extractedInstallCommands holds every non-empty, non-comment line of
\* the command blocks of the input, in the order of the input and with its
\* duplicates, whatever file markers stand around the block; and no step
\* removes or reorders an entry: the list before a step is a prefix of the
\* list after it.
C14_CommandsAppendOnlyInOrder ==
    /\ [](LET lines == CompleteLines(fed) IN
          streamingState.parsingState.extractedInstallCommands
              = CommandsUpTo(lines, Len(lines)))
    /\ [][IsPrefix(streamingState.parsingState.extractedInstallCommands,
                   streamingState'.parsingState.extractedInstallCommands)]_vars

\* Inside the file d, a command block of three commands (one of them twice)
\* and one comment line was read: exactly three entries, in source order.
C14_Witness ==
    /\ CompleteLines(fed) =
          <<OpenMarker("d", "full_content"), CommandOpenMarker, <<"pip">>, <<"npm">>,
            <<"#", "c">>, <<"pip">>>>
    /\ streamingState.parsingState.extractedInstallCommands
          = <<<<"pip">>, <<"npm">>, <<"pip">>>>
    /\ streamingState.parsingState.currentFile.filePath = "d"

\* The body between the close marker at line k and the open marker it closes.
BodyAt(lines, k) == ConcatLines(SubSeq(lines, LastOpenBefore(lines, k) + 1, k - 1))

\* How many closes of the input the close marker at line k is the last of.
CloseRank(lines, k) == Cardinality({c \in EffectiveCloses(lines) : c <= k})

\* C15: a file opened as full_content and closed with the body B is completed
\* with exactly B less its trailing newline: that is what its close callback,
\* its promise and the reconciler hand on, whatever the previous contents of
\* its path are.
C15_FullContentRoundTrip ==
    LET lines == CompleteLines(fed) IN
    \A k \in EffectiveCloses(lines) :
        LET open == lines[LastOpenBefore(lines, k)]
            B == BodyAt(lines, k)
            n == CloseRank(lines, k) IN
        open[3] = "full_content" =>
            /\ ClosedCallbacks[n].filePath = open[2]
            /\ ClosedCallbacks[n].data = TrimTrailingNewline(B)
            /\ fixedFilePromises[n].file.fileContents = TrimTrailingNewline(B)
            /\ \A q \in AllPaths :
                  processGeneratedFileContents(
                      [fileContents |-> B, format |-> "full_content"],
                      allFiles[q]).contents = TrimTrailingNewline(B)

\* The file a, which held 50 lines before, was rewritten with a body of two
\* lines and closed: the caller got those two lines.
C15_Witness ==
    /\ originalContentsOf("a") # <<>>
    /\ Len(ClosedCallbacks) = 1
    /\ ClosedCallbacks[1].filePath = "a"
    /\ ClosedCallbacks[1].data = <<"x", NL, "x">>
    /\ fixedFilePromises[1].file.format = "full_content"

\* Whether block stands in lines at line i.
OccursAt(lines, block, i) ==
    /\ i >= 1
    /\ i + Len(block) - 1 <= Len(lines)
    /\ SubSeq(lines, i, i + Len(block) - 1) = block

\* Whether patched is prior with, for each hunk in turn, the first occurrence
\* of the hunk's removed block replaced by its added lines and every other
\* line left as it was.
RECURSIVE ReplacesFirstOccurrences(_, _, _)
ReplacesFirstOccurrences(prior, hunks, patched) ==
    IF hunks = <<>> THEN patched = prior
    ELSE LET h == Head(hunks) IN
         \E i \in 1..(Len(prior) + 1) :
             /\ OccursAt(prior, h.minus, i)
             /\ \A j \in 1..(i - 1) : ~OccursAt(prior, h.minus, j)
             /\ ReplacesFirstOccurrences(
                    SubSeq(prior, 1, i - 1) \o h.plus
                        \o SubSeq(prior, i + Len(h.minus), Len(prior)),
                    Tail(hunks), patched)

\* C16: the contents handed on for a closed unified_diff file are the previous
\* contents of its path with, for each hunk, the first occurrence (top to
\* bottom) of the block of '-' lines replaced by the '+' lines and every other
\* line unchanged; previous contents line1/x/x with a hunk removing x and
\* adding y give line1/y/x.
C16_DiffReplacesFirstOccurrence ==
    LET lines == CompleteLines(fed) IN
    /\ \A k \in EffectiveCloses(lines) :
          LET open == lines[LastOpenBefore(lines, k)]
              n == CloseRank(lines, k) IN
          (open[3] = "unified_diff" /\ n <= Len(ClosedCallbacks)) =>
              ReplacesFirstOccurrences(
                  SplitNL(originalContentsOf(open[2])),
                  ParseHunks(SplitNL(BodyAt(lines, k)), EmptyHunk),
                  SplitNL(ClosedCallbacks[n].data))
    /\ (lines = <<OpenMarker("b", "unified_diff"), <<"-", "x">>, <<"+", "y">>,
                  CloseMarker>>)
          => /\ Len(ClosedCallbacks) = 1
             /\ ClosedCallbacks[1].data = <<"B49", NL, "y", NL, "x">>

\* The file b, which ends in the line x twice, was closed with a diff of two
\* hunks, each removing x and adding y: both lines are replaced, the first
\* hunk having taken the first of them.
C16_Witness ==
    /\ CompleteLines(fed) =
          <<OpenMarker("b", "unified_diff"), <<"-", "x">>, <<"+", "y">>,
            <<"-", "x">>, <<"+", "y">>, CloseMarker>>
    /\ Len(ClosedCallbacks) = 1
    /\ ClosedCallbacks[1].data = <<"B49", NL, "y", NL, "y">>

RECURSIVE ForwardedText(_, _, _)
ForwardedText(callbacks, o, c) ==
    IF o + 1 >= c THEN <<>>
    ELSE callbacks[o + 1].data \o ForwardedText(callbacks, o + 1, c)

\* The last file-open callback before the c-th callback (0 when none).
LastOpenCallback(callbacks, c) ==
    LET opens == {i \in 1..(c - 1) : callbacks[i].cb = "fileGenerating"} IN
    IF opens = {} THEN 0 ELSE CHOOSE i \in opens : \A j \in opens : j <= i

\* C18: for every file closed, the texts the caller got through the content
\* callback between the open callback of the file and its close callback,
\* put together in order, are the body of the file in the input: the lines
\* between its open marker and its close marker, with nothing dropped,
\* doubled or out of order.
C18_ForwardedChunksMakeBody ==
    LET lines == CompleteLines(fed)
        closes == EffectiveCloses(lines) IN
    \A c \in 1..Len(log) :
        log[c].cb = "fileClosed" =>
            LET o == LastOpenCallback(log, c)
                n == Cardinality({i \in 1..c : log[i].cb = "fileClosed"})
                k == CHOOSE k \in closes : CloseRank(lines, k) = n IN
            /\ o # 0
            /\ log[o].filePath = log[c].filePath
            /\ \A i \in (o + 1)..(c - 1) :
                  /\ log[i].cb = "fileChunkGenerated"
                  /\ log[i].filePath = log[c].filePath
            /\ ForwardedText(log, o, c) = BodyAt(lines, k)

\* The file a was closed after two content callbacks: the line x and a
\* truncated marker, each with its newline.
C18_Witness ==
    /\ Len(log) = 4
    /\ log[4].cb = "fileClosed"
    /\ log[2].data = <<"x", NL>>
    /\ log[3].data = TruncatedMarker \o <<NL>>

\* C19 (as claimed): nothing aborts the stream: for every input the parser
\* goes through all chunks to the end without an error leaving it, so execute
\* never rejects and every file event of the input has had its callback.
C19_StreamNeverAborts ==
    /\ pc # "rejected"
    /\ streamingState.accumulator = SplitNL(fed)[Len(SplitNL(fed))]
    /\ Len(log) = Len(FedEvents)

\* C20 (as claimed): the commands execute returns are a list: the command
\* lines of the input in the order of the input, duplicates kept, and the
\* empty list when the input holds no command block.
C20_ReturnedCommandsAreTheList ==
    LET lines == CompleteLines(fed) IN
    pc = "returned" =>
        /\ result.commands.defined
        /\ result.commands.list = CommandsUpTo(lines, Len(lines))

----------------------------------------------------------------------------
\* PROMPT_UTILS (src/worker/agents/prompts.ts).  A prompt is a sequence of
\* atoms: the braces "{{" and "}}", the key names and other text.

\* The longest template or prompt given to a PROMPT_UTILS function.
MaxPromptLen == 3

PromptAtoms == {"{{", "}}", "query", "template", "x"}

PromptKeys == {"query", "template"}

\* Every text of at most n atoms.
Texts(n) == UNION {[1..k -> PromptAtoms] : k \in 0..n}

\* `{{${key}}}`
placeholder(key) == <<"{{", key, "}}">>

\* The text holds "{{", a name and "}}" in a row.
HasPlaceholder(text) ==
    \E i \in 1..Len(text) :
        /\ i + 2 <= Len(text)
        /\ text[i] = "{{"
        /\ text[i + 1] \notin {"{{", "}}"}
        /\ text[i + 2] = "}}"

\* PROMPT_UTILS.verifyPrompt(prompt): the test for '{{' and its throw are
\* commented out, the prompt is returned.
verifyPrompt(prompt) == [threw |-> FALSE, value |-> prompt]

\* The caller verifies its prompt.
VerifyPrompt ==
    /\ promptCall.fn = "pending"
    /\ promptCall' = [fn |-> "verifyPrompt",
                      prompt |-> promptCall.prompt,
                      variables |-> promptCall.variables,
                      outcome |-> verifyPrompt(promptCall.prompt)]
    /\ UNCHANGED <<streamVars, deploy, review, setup>>

\* The values of the variables: plain text, or text that reads as the
\* placeholder of a key.
PromptValues == {<<"x">>, placeholder("query"), placeholder("template")}

\* Object.entries(variables): the keys of a Record in insertion order, each
\* key once, with their values.
VariableLists ==
    {entries \in UNION {[1..n -> [key : PromptKeys, value : PromptValues]] :
                           n \in 0..Cardinality(PromptKeys)} :
        \A i, j \in 1..Len(entries) : i # j => entries[i].key # entries[j].key}

\* text.replaceAll(pattern, replacement): the occurrences of the pattern,
\* found from left to right without overlap, are replaced; the replacement
\* is not searched again.
RECURSIVE replaceAll(_, _, _)
replaceAll(text, pattern, replacement) ==
    IF Len(text) < Len(pattern) THEN text
    ELSE IF SubSeq(text, 1, Len(pattern)) = pattern
    THEN replacement \o
         replaceAll(SubSeq(text, Len(pattern) + 1, Len(text)), pattern, replacement)
    ELSE <<Head(text)>> \o replaceAll(Tail(text), pattern, replacement)

\* PROMPT_UTILS.replaceTemplateVariables(template, variables): one replaceAll
\* per entry, in the order of the entries, each on the result of the one
\* before.
RECURSIVE replaceTemplateVariables(_, _)
replaceTemplateVariables(template, variables) ==
    IF variables = <<>> THEN template
    ELSE replaceTemplateVariables(
             replaceAll(template, placeholder(Head(variables).key),
                        Head(variables).value),
             Tail(variables))

\* The caller fills its template with its variables.
ReplaceTemplateVariables ==
    /\ promptCall.fn = "pending"
    /\ promptCall' =
           [fn |-> "replaceTemplateVariables",
            prompt |-> promptCall.prompt,
            variables |-> promptCall.variables,
            outcome |-> [threw |-> FALSE,
                         value |-> replaceTemplateVariables(promptCall.prompt,
                                                            promptCall.variables)]]
    /\ UNCHANGED <<streamVars, deploy, review, setup>>

\* generalSystemPromptBuilder(prompt, params): the variables are query, then
\* template (the serialized template details), in that order; the filled
\* prompt goes through verifyPrompt.
GeneralSystemPromptBuilder ==
    /\ promptCall.fn = "pending"
    /\ Len(promptCall.variables) = 2
    /\ promptCall.variables[1].key = "query"
    /\ promptCall.variables[2].key = "template"
    /\ promptCall' =
           [fn |-> "generalSystemPromptBuilder",
            prompt |-> promptCall.prompt,
            variables |-> promptCall.variables,
            outcome |-> verifyPrompt(
                            replaceTemplateVariables(promptCall.prompt,
                                                     promptCall.variables))]
    /\ UNCHANGED <<streamVars, deploy, review, setup>>

\* A caller holds a prompt of at most MaxPromptLen atoms and variables.
InitPrompts ==
    /\ profile = "prompts"
    /\ shouldAutoFix = FALSE
    /\ realtimeEnabled = FALSE
    /\ InitRun
    /\ deploy = NoDeploy
    /\ review = NoReview
    /\ setup = NoSetup
    /\ \E prompt \in Texts(MaxPromptLen), variables \in VariableLists :
           promptCall = [fn |-> "pending", prompt |-> prompt,
                         variables |-> variables]

NextPrompts == VerifyPrompt \/ ReplaceTemplateVariables \/ GeneralSystemPromptBuilder

SpecPrompts == InitPrompts /\ [][NextPrompts]_vars

\* C21: verifyPrompt throws whenever the prompt still holds an un-replaced
\* {{variable}} placeholder, and returns the prompt unchanged otherwise.
C21_VerifyPromptRejectsPlaceholders ==
    promptCall.fn = "verifyPrompt" =>
        /\ promptCall.outcome.threw <=> HasPlaceholder(promptCall.prompt)
        /\ ~promptCall.outcome.threw =>
               promptCall.outcome.value = promptCall.prompt

C23_NoDeduplicationByPath ==
    LET closes == FedCloses IN
    /\ Len(fixedFilePromises) = Len(closes)
    /\ \A i \in Entries :
          /\ fixedFilePromises[i].file.filePath = closes[i].filePath
          /\ fixedFilePromises[i].file.fileContents = ReconciledOf(closes[i])
    /\ \A p \in AllPaths :
          LET is == {i \in Entries : fixedFilePromises[i].file.filePath = p} IN
          is # {} =>
              LET last == CHOOSE i \in is : \A j \in is : j <= i IN
              /\ streamingState.completedFiles[p].present
              /\ fixedFilePromises[last].file.fileContents =
                     streamingState.completedFiles[p].fileContents

\* The file a was closed twice, with the line x and then with no content: two
\* entries of path a in that order, and completedFiles holds the second.
C23_Witness ==
    /\ Len(fixedFilePromises) = 2
    /\ fixedFilePromises[1].file.filePath = "a"
    /\ fixedFilePromises[2].file.filePath = "a"
    /\ fixedFilePromises[1].file.fileContents = <<"x">>
    /\ fixedFilePromises[2].file.fileContents = <<>>
    /\ streamingState.completedFiles["a"].fileContents = <<>>

\* C24: deploymentNeeded of the result is true exactly when the stream closed
\* at least one file, which is exactly when fixedFilePromises is not empty,
\* whatever the corrections did: none started, pending, fulfilled or rejected.
C24_DeploymentNeededIffFileClosed ==
    pc = "returned" =>
        /\ result.deploymentNeeded <=> Len(FedCloses) > 0
        /\ result.deploymentNeeded <=> Len(result.fixedFilePromises) > 0
        /\ result.deploymentNeeded <=> Len(ClosedCallbacks) > 0

\* execute returned deploymentNeeded = true for one closed file whose
\* correction was rejected.
C24_Witness ==
    /\ pc = "returned"
    /\ result.deploymentNeeded
    /\ Len(result.fixedFilePromises) = 1
    /\ Len(tasks) = 1
    /\ tasks[1].state = "rejected"

----------------------------------------------------------------------------
\* deployToDigitalOceanDroplet (src/unnamed/part_001).  Time is in
\* milliseconds, as Date.now() gives it.

DEFAULT_POLL_INTERVAL == 5000

DEFAULT_TIMEOUT == 5 * 60000

\* The longest time a request to the DigitalOcean API takes.
MaxDelay == 1

\* The largest pollIntervalMs and timeoutMs a caller gives.
MaxPollIntervalMs == 1
MaxTimeoutMs == 2

\* An optional number of the options: undefined, or one of the values.
OptionalNumber(values) ==
    {[defined |-> FALSE, value |-> 0]} \cup
    {[defined |-> TRUE, value |-> v] : v \in values}

\* The options of a call.  A caller that leaves the timeout at its default
\* leaves the poll interval at its default too.
DeployOptions ==
    {o \in [waitForActive : {"undefined", "true", "false"},
            pollIntervalMs : OptionalNumber(0..MaxPollIntervalMs),
            timeoutMs : OptionalNumber(0..MaxTimeoutMs)] :
        ~o.timeoutMs.defined => ~o.pollIntervalMs.defined}

\* What the API answers about a droplet: its status and its first IPv4
\* address, "" when networks.v4 has none.
DropletViews == [status : {"new", "active"}, ipv4Address : {"", "ip"}]

\* option || fallback: a value of 0 gives way to the fallback as well.
orDefaultFalsy(option, fallback) ==
    IF option.defined /\ option.value # 0 THEN option.value ELSE fallback

\* option ?? fallback
orDefault(option, fallback) ==
    IF option.defined THEN option.value ELSE fallback

\* const pollInterval / const timeout of waitForDropletActive
pollIntervalOf(options) == orDefault(options.pollIntervalMs, DEFAULT_POLL_INTERVAL)
timeoutOf(options) == orDefault(options.timeoutMs, DEFAULT_TIMEOUT)

\* The timeout test made before the readiness test.
pollOutcomeTimeoutFirst(droplet, elapsed, timeout) ==
    IF elapsed > timeout THEN "timedOut"
    ELSE IF droplet.status = "active" /\ droplet.ipv4Address # ""
    THEN "ready"
    ELSE "sleep"

\* What one round of the loop of waitForDropletActive does with the droplet
\* it polled: return it, throw the timeout error, or sleep.
pollOutcome(droplet, elapsed, timeout) ==
    IF droplet.status = "active" /\ droplet.ipv4Address # "" THEN "ready"
    ELSE IF elapsed > timeout THEN "timedOut"
    ELSE "sleep"

\* The status polled only when the caller asked for it.
waitsForActiveWhenTruthy(options) == options.waitForActive = "true"

\* Whether the call waits for the droplet: not when
\* options.waitForActive === false.
waitsForActive(options) == options.waitForActive # "false"

\* deployToDigitalOceanDroplet(options) is called: createDroplet posts the
\* creation request and the answer comes after some time.  A response that
\* is not OK throws; with waitForActive === false the created droplet is
\* returned; otherwise waitForDropletActive starts and reads the clock.
CreateDroplet ==
    /\ deploy.pc = "creating"
    /\ \E delay \in 0..MaxDelay, ok \in BOOLEAN, created \in DropletViews :
        LET now == deploy.now + delay
            requested == [deploy EXCEPT !.now = now, !.creations = @ + 1] IN
        deploy' =
            IF ~ok
            THEN [requested EXCEPT !.pc = "thrown", !.outcome = "creation failed"]
            ELSE IF ~waitsForActive(deploy.options)
            THEN [requested EXCEPT !.pc = "returned", !.outcome = "created",
                                   !.droplet = created]
            ELSE [requested EXCEPT !.pc = "polling", !.start = now]
    /\ UNCHANGED <<streamVars, promptCall, review, setup>>

\* One round of the loop of waitForDropletActive: getDroplet asks for the
\* droplet and the answer comes after some time.  A response that is not OK
\* throws; otherwise the droplet is returned when it is ready, the timeout
\* error is thrown when the time is up, and else the timer is set.
Poll ==
    /\ deploy.pc = "polling"
    /\ \E delay \in 0..MaxDelay, ok \in BOOLEAN, droplet \in DropletViews :
        LET now == deploy.now + delay
            polled == [deploy EXCEPT !.now = now, !.polled = TRUE] IN
        deploy' =
            IF ~ok
            THEN [polled EXCEPT !.pc = "thrown", !.outcome = "lookup failed"]
            ELSE LET next == pollOutcome(droplet, now - deploy.start,
                                         timeoutOf(deploy.options)) IN
                 [polled EXCEPT
                     !.droplet = droplet,
                     !.pc = IF next = "ready" THEN "returned"
                            ELSE IF next = "timedOut" THEN "thrown"
                            ELSE "sleeping",
                     !.outcome = IF next = "ready" THEN "active"
                                 ELSE IF next = "timedOut" THEN "Timed out"
                                 ELSE @]
    /\ UNCHANGED <<streamVars, promptCall, review, setup>>

\* await new Promise((resolve) => setTimeout(resolve, pollInterval)): the
\* timer fires and the loop goes round.
Sleep ==
    /\ deploy.pc = "sleeping"
    /\ deploy' = [deploy EXCEPT !.pc = "polling",
                                !.now = @ + pollIntervalOf(deploy.options)]
    /\ UNCHANGED <<streamVars, promptCall, review, setup>>

InitDeploy ==
    /\ profile = "deploy"
    /\ shouldAutoFix = FALSE
    /\ realtimeEnabled = FALSE
    /\ InitRun
    /\ promptCall = NoPromptCall
    /\ review = NoReview
    /\ setup = NoSetup
    /\ \E options \in DeployOptions :
           deploy = [pc |-> "creating", options |-> options, now |-> 0,
                     start |-> 0, creations |-> 0, polled |-> FALSE,
                     droplet |-> [status |-> "none", ipv4Address |-> ""],
                     outcome |-> "none"]

NextDeploy == CreateDroplet \/ Poll \/ Sleep

SpecDeploy == InitDeploy /\ [][NextDeploy]_vars

\* Every request gets its answer and every timer fires.
SpecDeployFair ==
    SpecDeploy /\ WF_vars(CreateDroplet) /\ WF_vars(Poll) /\ WF_vars(Sleep)

\* C25: waitForDropletActive returns only a droplet polled as active and with
\* an IPv4 address, and a poll that finds the droplet ready returns it even
\* when the timeout has elapsed: the timeout error is thrown only for a
\* droplet that is not ready.
C25_OnlyReadyDropletReturned ==
    /\ [](/\ (deploy.pc = "returned" /\ deploy.outcome = "active") =>
                 /\ deploy.droplet.status = "active"
                 /\ deploy.droplet.ipv4Address = "ip"
          /\ (deploy.pc = "thrown" /\ deploy.outcome = "Timed out") =>
                 \/ deploy.droplet.status # "active"
                 \/ deploy.droplet.ipv4Address = "")
    /\ [][(deploy.pc = "polling" /\ deploy'.polled
              /\ deploy'.droplet.status = "active"
              /\ deploy'.droplet.ipv4Address = "ip") =>
                 (deploy'.pc = "returned" /\ deploy'.outcome = "active")]_vars

\* A droplet was returned that a poll found ready after the timeout of 0 had
\* elapsed.
C25_Witness ==
    /\ deploy.pc = "returned"
    /\ deploy.outcome = "active"
    /\ deploy.options.timeoutMs = [defined |-> TRUE, value |-> 0]
    /\ deploy.now - deploy.start > 0

\* C26: waitForDropletActive polls before it does anything else, also with a
\* timeout of 0; it throws the timeout error exactly when a poll found the
\* droplet not ready and the time since the start is above the timeout (5
\* minutes when none is given), and sleeps for pollInterval (5 seconds when
\* none is given) before the next poll otherwise; and when every request is
\* answered and time advances, the call comes to an end.
C26_WaitTerminates ==
    /\ [](LET options == deploy.options
              timeout == IF options.timeoutMs.defined
                         THEN options.timeoutMs.value ELSE 300000
              elapsed == deploy.now - deploy.start
              notReady == deploy.droplet.status # "active"
                              \/ deploy.droplet.ipv4Address = "" IN
          /\ (deploy.pc = "thrown" /\ deploy.outcome = "Timed out") =>
                 deploy.polled /\ notReady /\ elapsed > timeout
          /\ deploy.pc = "sleeping" =>
                 deploy.polled /\ notReady /\ elapsed <= timeout
          /\ (deploy.pc = "polling" /\ ~deploy.polled) => elapsed = 0)
    /\ [][deploy.pc = "sleeping" =>
              /\ deploy'.pc = "polling"
              /\ deploy'.now = deploy.now +
                     (IF deploy.options.pollIntervalMs.defined
                      THEN deploy.options.pollIntervalMs.value ELSE 5000)]_vars
    /\ ([]<><<deploy'.now > deploy.now>>_vars) =>
           <>(deploy.pc \in {"returned", "thrown"})

\* The timeout error was thrown with the default timeout: the droplet was
\* still not ready more than five minutes after the start.
C26_Witness ==
    /\ deploy.pc = "thrown"
    /\ deploy.outcome = "Timed out"
    /\ ~deploy.options.timeoutMs.defined
    /\ deploy.now - deploy.start > 300000

\* C27: a call makes one creation request and polls only after the creation
\* succeeded: a creation that is not OK throws with no poll made, with
\* waitForActive false the created droplet is returned with no poll made, and
\* otherwise (true or undefined) what the call returns is the droplet
\* waitForDropletActive polled; a poll request that fails ends the call with
\* its error.
C27_CreateOnceThenPoll ==
    LET wait == deploy.options.waitForActive \in {"true", "undefined"} IN
    /\ deploy.creations = (IF deploy.pc = "creating" THEN 0 ELSE 1)
    /\ deploy.polled => (wait /\ deploy.outcome # "creation failed")
    /\ deploy.outcome = "creation failed" => deploy.pc = "thrown"
    /\ deploy.outcome = "lookup failed" => deploy.pc = "thrown"
    /\ deploy.pc \in {"polling", "sleeping"} => wait
    /\ deploy.pc = "returned" =>
          IF wait THEN deploy.outcome = "active" /\ deploy.polled
          ELSE deploy.outcome = "created" /\ ~deploy.polled

\* A call that left waitForActive undefined returned the droplet that its
\* second poll found active.
C27_Witness ==
    /\ deploy.options.waitForActive = "undefined"
    /\ deploy.pc = "returned"
    /\ deploy.outcome = "active"
    /\ deploy.creations = 1
    /\ deploy.now - deploy.start >= 5000

----------------------------------------------------------------------------
\* CodeReviewOperation.execute (src/worker/agents/operations/CodeReview.ts).

\* The most runtime errors, lint issues and typecheck issues of a report.
MaxIssues == 2

\* The effort asked for only by the number of runtime errors.
reasoningEffortRuntimeOnly(runtimeErrors, lintIssues, typecheckIssues) ==
    IF runtimeErrors # 0 THEN "undefined" ELSE "low"

\* reasoning_effort: runtimeErrors.length || lint.issues.length ||
\* typecheck.issues.length > 0 ? undefined : 'low'.  The comparison binds
\* tighter than ||, and a length is truthy when it is not 0.
reasoningEffort(runtimeErrors, lintIssues, typecheckIssues) ==
    IF runtimeErrors # 0 \/ lintIssues # 0 \/ typecheckIssues > 0
    THEN "undefined"
    ELSE "low"

\* execute builds the messages and calls executeInference.
ReviewInfer ==
    /\ review.pc = "called"
    /\ review' = [review EXCEPT
           !.pc = "inferring",
           !.reasoning_effort = reasoningEffort(review.issues.runtimeErrors,
                                                review.issues.lint,
                                                review.issues.typecheck)]
    /\ UNCHANGED <<streamVars, promptCall, deploy, setup>>

\* executeInference settles: with a review result execute returns it, with
\* none it throws, and an error of the inference is logged and thrown again.
ReviewSettle ==
    /\ review.pc = "inferring"
    /\ \E outcome \in {"object", "none", "error"} :
           review' = [review EXCEPT
               !.pc = IF outcome = "object" THEN "returned" ELSE "thrown",
               !.outcome = outcome]
    /\ UNCHANGED <<streamVars, promptCall, deploy, setup>>

InitReview ==
    /\ profile = "review"
    /\ shouldAutoFix = FALSE
    /\ realtimeEnabled = FALSE
    /\ InitRun
    /\ promptCall = NoPromptCall
    /\ deploy = NoDeploy
    /\ setup = NoSetup
    /\ \E issues \in [runtimeErrors : 0..MaxIssues, lint : 0..MaxIssues,
                      typecheck : 0..MaxIssues] :
           review = [pc |-> "called", issues |-> issues,
                     reasoning_effort |-> "unset", outcome |-> "unset"]

NextReview == ReviewInfer \/ ReviewSettle

SpecReview == InitReview /\ [][NextReview]_vars

\* C28: the inference of a code review is asked for reasoning effort 'low'
\* exactly when the report has no runtime error, no lint issue and no
\* typecheck issue; with any of the three the effort is left undefined.
C28_LowEffortIffNoIssues ==
    review.pc \in {"inferring", "returned", "thrown"} =>
        LET clean == /\ review.issues.runtimeErrors = 0
                     /\ review.issues.lint = 0
                     /\ review.issues.typecheck = 0 IN
        /\ review.reasoning_effort = "low" <=> clean
        /\ ~clean => review.reasoning_effort = "undefined"

\* A review of a report with typecheck issues only returned, its inference
\* made with no reasoning effort set.
C28_Witness ==
    /\ review.pc = "returned"
    /\ review.issues = [runtimeErrors |-> 0, lint |-> 0, typecheck |-> 2]
    /\ review.reasoning_effort = "undefined"

\* The template with every placeholder of a key of the variables replaced
\* by the value of the key in one pass from left to right: what has been
\* put in is not looked at again.
RECURSIVE SimultaneousPass(_, _)
SimultaneousPass(template, variables) ==
    IF template = <<>> THEN <<>>
    ELSE LET hits == {i \in 1..Len(variables) :
                         /\ Len(template) >= 3
                         /\ SubSeq(template, 1, 3) = placeholder(variables[i].key)} IN
         IF hits # {}
         THEN variables[CHOOSE i \in hits : TRUE].value \o
              SimultaneousPass(SubSeq(template, 4, Len(template)), variables)
         ELSE <<Head(template)>> \o SimultaneousPass(Tail(template), variables)

\* C29: replaceTemplateVariables gives the template with its placeholders
\* replaced in one simultaneous pass: a placeholder inside a value that was
\* put in stays as it is, so the order of the keys does not matter.
C29_SimultaneousSubstitution ==
    promptCall.fn \in {"replaceTemplateVariables", "generalSystemPromptBuilder"} =>
        promptCall.outcome.value =
            SimultaneousPass(promptCall.prompt, promptCall.variables)

----------------------------------------------------------------------------
\* ProjectSetupAssistant.generateSetupCommands (src/unnamed/part_000).

\* The most calls of generateSetupCommands on one assistant.
MaxCalls == 3

\* The argument error?: string of a call: none, the empty string, a text.
ErrorArguments ==
    {[given |-> FALSE, text |-> ""], [given |-> TRUE, text |-> ""],
     [given |-> TRUE, text |-> "boom"]}

\* What executeInference gives: a string (which may be empty), undefined,
\* something that is not a string, or an error thrown.
InferenceResults ==
    [kind : {"string"}, text : {"pip", ""}] \cup
    [kind : {"undefined", "object", "throws"}, text : {""}]

Message(role, content, error) == [role |-> role, content |-> content, error |-> error]

\* The regeneration chosen for every error argument that was given.
isTruthyWhenGiven(error) == error.given

\* if (error) / error ? ... : a string is truthy when it is not empty.
isTruthy(error) == error.given /\ error.text # ""

\* !results || typeof results !== 'string'
isFailedResult(results) == results.kind # "string" \/ results.text = ""

\* Assistant.save(messages): the messages go to the end of the history, which
\* is returned.
save(history, messages) == history \o messages

\* new ProjectSetupAssistant(...): the system prompt and the first user
\* message are in the history.
NewSetupAssistant ==
    [pc |-> "ready",
     history |-> <<Message("system", "SYSTEM_PROMPT", ""),
                   Message("user", "SETUP_USER_PROMPT", "")>>,
     calls |-> 0,
     error |-> [given |-> FALSE, text |-> ""],
     modelName |-> "undefined",
     results |-> [kind |-> "undefined", text |-> ""],
     outcome |-> "none"]

\* generateSetupCommands(error) up to its await: the user prompt, the
\* regeneration prompt with the error when there is one, is saved and
\* executeInference is called, with the fallback model when there is an error.
GenerateSetupCommands ==
    /\ setup.pc = "ready"
    /\ setup.calls < MaxCalls
    /\ \E error \in ErrorArguments :
           LET userPrompt == IF isTruthy(error)
                             THEN Message("user", "regenerate", error.text)
                             ELSE Message("user", "suggest", "") IN
           setup' = [setup EXCEPT
               !.pc = "inferring",
               !.calls = @ + 1,
               !.error = error,
               !.history = save(@, <<userPrompt>>),
               !.modelName = IF isTruthy(error) THEN "GEMINI_2_5_FLASH"
                             ELSE "undefined"]
    /\ UNCHANGED <<streamVars, promptCall, deploy, review>>

\* executeInference settles: an error is logged and thrown again; a result
\* that is no string, or is empty, gives {commands: []}; a string is saved
\* as the assistant's message and its commands are returned.
SetupInferenceSettles ==
    /\ setup.pc = "inferring"
    /\ \E results \in InferenceResults :
           setup' = [setup EXCEPT
               !.pc = "ready",
               !.results = results,
               !.history = IF results.kind = "throws" \/ isFailedResult(results)
                           THEN @
                           ELSE save(@, <<Message("assistant", results.text, "")>>),
               !.outcome = IF results.kind = "throws" THEN "thrown"
                           ELSE IF isFailedResult(results) THEN "commands: []"
                           ELSE "commands: extractCommands(results)"]
    /\ UNCHANGED <<streamVars, promptCall, deploy, review>>

InitSetup ==
    /\ profile = "setup"
    /\ shouldAutoFix = FALSE
    /\ realtimeEnabled = FALSE
    /\ InitRun
    /\ promptCall = NoPromptCall
    /\ deploy = NoDeploy
    /\ review = NoReview
    /\ setup = NewSetupAssistant

NextSetup == GenerateSetupCommands \/ SetupInferenceSettles

SpecSetup == InitSetup /\ [][NextSetup]_vars

\* C30 (as claimed): a call appends one user message before the inference
\* and the assistant's reply only for a string result; a result that is
\* absent or no string gives {commands: []} with nothing thrown and nothing
\* appended, an error of the inference is thrown again, and the regeneration
\* prompt and the fallback model are used exactly when an error argument is
\* given.
C30_RegeneratesWhenErrorGiven ==
    [][/\ (setup.pc = "ready" /\ setup'.pc = "inferring") =>
              /\ setup'.history =
                     Append(setup.history, setup'.history[Len(setup'.history)])
              /\ setup'.history[Len(setup'.history)].role = "user"
              /\ setup'.history[Len(setup'.history)].content = "regenerate"
                     <=> setup'.error.given
              /\ setup'.modelName = "GEMINI_2_5_FLASH" <=> setup'.error.given
       /\ (setup.pc = "inferring" /\ setup'.pc = "ready") =>
              /\ setup'.history # setup.history =>
                     /\ setup'.results.kind = "string"
                     /\ setup'.history =
                            Append(setup.history,
                                   Message("assistant", setup'.results.text, ""))
              /\ setup'.results.kind \in {"undefined", "object"} =>
                     /\ setup'.outcome = "commands: []"
                     /\ setup'.history = setup.history
              /\ setup'.results.kind = "throws" <=> setup'.outcome = "thrown"]_vars

\* C30: as above, with the regeneration prompt and the fallback model used
\* exactly when the error argument is a string that is not empty: a call
\* given the empty string runs as a call given no error.  An empty string
\* result gives {commands: []} and no assistant message, as an absent one.
C30_RegeneratesWhenErrorNotEmpty ==
    [][/\ (setup.pc = "ready" /\ setup'.pc = "inferring") =>
              /\ setup'.history =
                     Append(setup.history, setup'.history[Len(setup'.history)])
              /\ setup'.history[Len(setup'.history)] =
                     (IF setup'.error.given /\ setup'.error.text # ""
                      THEN Message("user", "regenerate", setup'.error.text)
                      ELSE Message("user", "suggest", ""))
              /\ setup'.modelName = "GEMINI_2_5_FLASH"
                     <=> (setup'.error.given /\ setup'.error.text # "")
              /\ setup'.modelName \in {"GEMINI_2_5_FLASH", "undefined"}
       /\ (setup.pc = "inferring" /\ setup'.pc = "ready") =>
              /\ setup'.history # setup.history =>
                     /\ setup'.results.kind = "string"
                     /\ setup'.history =
                            Append(setup.history,
                                   Message("assistant", setup'.results.text, ""))
              /\ setup'.results.kind \in {"undefined", "object"} =>
                     /\ setup'.outcome = "commands: []"
                     /\ setup'.history = setup.history
              /\ setup'.results = [kind |-> "string", text |-> ""] =>
                     /\ setup'.outcome = "commands: []"
                     /\ setup'.history = setup.history
              /\ setup'.results = [kind |-> "string", text |-> "pip"] =>
                     /\ setup'.outcome = "commands: extractCommands(results)"
                     /\ setup'.history # setup.history
              /\ setup'.results.kind = "throws" <=> setup'.outcome = "thrown"
              /\ setup'.results.kind = "throws" => setup'.history = setup.history]_vars

\* A second call, given an error, waits for its inference with the fallback
\* model: the history holds the reply of the first call and, last, the
\* regeneration prompt.
C30_Witness ==
    /\ setup.pc = "inferring"
    /\ setup.calls = 2
    /\ setup.modelName = "GEMINI_2_5_FLASH"
    /\ Len(setup.history) = 5
    /\ setup.history[3] = Message("user", "suggest", "")
    /\ setup.history[4] = Message("assistant", "pip", "")
    /\ setup.history[5] = Message("user", "regenerate", "boom")

=============================================================================
